---- MODULE Spec2Model ----
(***************************************************************************)
(* The per-user outbound message queue of the WhatsApp webhook dashboard:  *)
(* the registry (messageQueues / queueMutex), one MessageQueue per user    *)
(* guarded by its own RWMutex, the enqueue path of the HTTP handlers       *)
(* (getOrCreateQueue, canSendMessage, addMessage, getQueuePosition) and    *)
(* the drain goroutine processQueue with its rate limits, pacing sleeps,   *)
(* retries and delivery callbacks.                                         *)
(*                                                                         *)
(* Threads are the HTTP handler goroutines (one per enqueue request) and   *)
(* the processQueue goroutines.  A critical section that takes a lock,     *)
(* never blocks inside and releases it is one atomic action guarded by     *)
(* the lock being free; a lock that is held across a return to the         *)
(* scheduler (canSendMessage's read lock, the pacing section of            *)
(* processQueue) is held visibly in mu.                                    *)
(***************************************************************************)
EXTENDS Integers, Sequences, FiniteSets, TLC

(***************************************************************************)
(* Bounds of the model.  The program's limits are scaled down so that the  *)
(* queue fills and the rate windows are exhausted within a few requests;   *)
(* one clock tick is one second, and the longer durations are scaled to a  *)
(* few ticks keeping their order.                                          *)
(***************************************************************************)
MaxReqs == 2                \* enqueue requests (HTTP handler goroutines)
MaxWorkers == 2             \* goroutine slots per queue for processQueue
MaxTime == 4                \* the clock runs from 0 to MaxTime
MaxFails == 3               \* send attempts that fail, over all messages

MAX_QUEUE_PER_USER == 1     \* 50 in the program
MAX_HOURLY_MESSAGES == 2    \* 200 in the program
MAX_DAILY_MESSAGES == 3     \* 1000 in the program
BURST_ALLOWANCE == 2        \* 5 in the program
MAX_RETRIES == 3
MESSAGE_DELAY == 1          \* 1 * time.Second
BURST_COOLDOWN == 3         \* 3 * time.Second
MINUTE == 1                 \* time.Minute, the rate-limit backoff
HOUR == 2                   \* time.Hour
DAY == 3                    \* 24 * time.Hour

Users == {"a", "b"}
Reqs == 1..MaxReqs
Msgs == 0..MaxReqs      \* request r queues message r; message 0 is queued at the start
Slots == 1..MaxWorkers

\* A request's shape: the entry point and field its destination comes by
\* (chat_jid of /api/messages/send, chat_id or the legacy groupId of
\* /webhook/), whether the spam check takes its text for spam, and whether
\* types.ParseJID accepts its destination.
Shapes == [via : {"chat_jid", "chat_id", "groupId"},
           body : {"ok", "spam"},
           dest : {"ok", "bad"}]
PlainShape == [via |-> "chat_jid", body |-> "ok", dest |-> "ok"]

\* The runs that are followed: with plain requests and status queries made
\* for one user, over MaxTime seconds; with plain requests made for either user, all within one
\* second; and with requests of any shape made for b, all within one second.
\* These runs start with a's queue in use: it was created at time 0, has sent
\* one message since, in that second, and has just accepted another, message
\* 0, for which it has started its goroutine.  The last kind of run, with
\* plain requests for one user over MaxTime seconds, starts with a's queue at
\* its burst allowance: see BurstQueue.  Nothing else has happened in the
\* process; b has no queue yet.
Scopes == {[users |-> {"a"}, horizon |-> MaxTime, shapes |-> {PlainShape},
            queries |-> TRUE, start |-> "used"],
           [users |-> Users, horizon |-> 0, shapes |-> {PlainShape},
            queries |-> FALSE, start |-> "used"],
           [users |-> {"b"}, horizon |-> 0, shapes |-> Shapes,
            queries |-> FALSE, start |-> "used"],
           [users |-> {"a"}, horizon |-> MaxTime, shapes |-> {PlainShape},
            queries |-> FALSE, start |-> "burst"]}
\* Whether the request carries a callback_url.
HasCallback(r) == r % 2 = 1

\* No message in a goroutine's hand.
NoMsg == 0 - 1

\* time.Time{}: the zero value of LastSent.
ZeroTime == 0 - 1

VARIABLES
    scope,          \* the run's users and length, fixed at the start
    clock,          \* time.Now()
    messageQueues,  \* the registry: the users that have a queue
    queues,         \* user -> the MessageQueue's fields
    mu,             \* lock -> [writer, readers]: queueMutex and each q.mu
    msgs,           \* request -> the QueuedMessage's Status and Retries
    handlers,       \* request -> the handler goroutine's position and locals
    workers,        \* user -> slot -> a processQueue goroutine
    accepted,       \* history: user -> ids in the order addMessage accepted them
    sentLog,        \* history: user -> ids in the order their sends succeeded
    attempts,       \* history: request -> transport attempts started
    callbacks,      \* history: request -> callbacks fired, by status
    anyFail,        \* history: user -> a send attempt of that user has failed
    reply,          \* request -> the response to a status query or an enqueue
    typing,         \* one call of sendMessage followed through simulateTyping
    spam,           \* one call of isSpamPattern: the message and the verdict
    webhookLogs,    \* the webhook logs, their mutex and the calls on them
    waUsers         \* the users' WhatsApp states and the calls on them

vars == <<scope, clock, messageQueues, queues, mu, msgs, handlers, workers,
          accepted, sentLog, attempts, callbacks, anyFail, reply, typing,
          spam, webhookLogs, waUsers>>

\* What the queues' actions leave alone.
side == <<typing, spam, webhookLogs, waUsers>>

hist == <<scope, accepted, sentLog, attempts, callbacks, anyFail, reply, side>>

\* The users a request may be made for.
ReqUsers(r) == scope.users

(***************************************************************************)
(* Threads and locks                                                       *)
(***************************************************************************)
\* The user of request r, known once the request has arrived.
ReqOwner(r) == handlers[r].u

NoThread == [kind |-> "none", u |-> "", k |-> 0]
HandlerThread(r) == [kind |-> "handler", u |-> ReqOwner(r), k |-> r]
WorkerThread(u, k) == [kind |-> "worker", u |-> u, k |-> k]

\* The registry's lock.
RegistryLock == "queueMutex"
\* The lock of user u's queue: the mu field of its MessageQueue.
QueueLockShared(u) == RegistryLock
QueueLock(u) == u

LockIds == {RegistryLock} \cup {QueueLock(u) : u \in Users}

\* Lock() can be taken: no writer and no reader.
CanLock(l) == mu[l].writer = NoThread /\ mu[l].readers = {}
\* RLock() can be taken: no writer.
CanRLock(l) == mu[l].writer = NoThread

Lock(l, t) == [mu EXCEPT ![l].writer = t]
Unlock(l) == [mu EXCEPT ![l].writer = NoThread]
RLock(l, t) == [mu EXCEPT ![l].readers = @ \cup {t}]
RUnlockNever(l, t) == mu
RUnlock(l, t) == [mu EXCEPT ![l].readers = @ \ {t}]

(***************************************************************************)
(* The queue's pure parts                                                  *)
(***************************************************************************)
NewQueue(now) ==
    [Messages |-> <<>>, LastSent |-> ZeroTime, BurstCount |-> 0,
     HourlyCount |-> 0, DailyCount |-> 0,
     HourlyReset |-> now + HOUR, DailyReset |-> now + DAY,
     IsProcessing |-> FALSE]

\* canSendMessage: "if now.After(q.HourlyReset)".
RollHourlyNever(q, now) == q
RollHourly(q, now) ==
    IF now > q.HourlyReset
    THEN [q EXCEPT !.HourlyCount = 0, !.HourlyReset = now + HOUR]
    ELSE q

\* canSendMessage: "if now.After(q.DailyReset)".
RollDailyFixed(q, now) ==
    IF now > q.DailyReset
    THEN [q EXCEPT !.DailyCount = 0, !.DailyReset = @ + DAY]
    ELSE q
RollDaily(q, now) ==
    IF now > q.DailyReset
    THEN [q EXCEPT !.DailyCount = 0, !.DailyReset = now + DAY]
    ELSE q

\* canSendMessage: the two limit checks.
WithinLimitsLax(q) ==
    ~(q.DailyCount > MAX_DAILY_MESSAGES) /\ ~(q.HourlyCount > MAX_HOURLY_MESSAGES)
WithinLimits(q) ==
    ~(q.DailyCount >= MAX_DAILY_MESSAGES) /\ ~(q.HourlyCount >= MAX_HOURLY_MESSAGES)

\* addMessage: len(q.Messages), compared with the capacity.
RECURSIVE SumLen(_)
SumLen(S) ==
    IF S = {} THEN 0
    ELSE LET x == CHOOSE x \in S : TRUE
         IN Len(queues[x].Messages) + SumLen(S \ {x})
QueueLenTotal(u) == SumLen(Users)
QueueLen(u) == Len(queues[u].Messages)

\* addMessage: "if len(q.Messages) >= MAX_QUEUE_PER_USER".
IsFullOff(n) == n > MAX_QUEUE_PER_USER
IsFull(n) == n >= MAX_QUEUE_PER_USER

\* addMessage: "if !q.IsProcessing".
ShouldSpawnAlways(q) == TRUE
ShouldSpawn(q) == ~q.IsProcessing

\* getQueuePosition: the 1-based index of the id, or -1.
getQueuePosition(q, id) ==
    IF \E i \in 1..Len(q.Messages) : q.Messages[i] = id
    THEN CHOOSE i \in 1..Len(q.Messages) :
            q.Messages[i] = id /\ \A j \in 1..(i - 1) : q.Messages[j] # id
    ELSE 0 - 1

\* A queue created at now that has sent one message at now, the state
\* processQueue leaves behind for a first message that needed no retry, and
\* has then accepted message 0: the state addMessage leaves behind.
UsedQueue(now) ==
    [NewQueue(now) EXCEPT !.LastSent = now, !.BurstCount = 1,
                          !.HourlyCount = 1, !.DailyCount = 1,
                          !.Messages = <<0>>, !.IsProcessing = TRUE]

\* A queue at its burst allowance.  It was created more than an hour before
\* time 0 and has sent BURST_ALLOWANCE messages, none of them BURST_COOLDOWN
\* after the one before; the last one was checked and sent at time 0, when the
\* first hourly window had expired, so that the rate check moved the window
\* and the send is the first of the new one.  It has then accepted message 0.
BurstQueue ==
    [NewQueue(0 - HOUR - 1) EXCEPT !.LastSent = 0,
                                   !.BurstCount = BURST_ALLOWANCE,
                                   !.HourlyCount = 1, !.HourlyReset = HOUR,
                                   !.DailyCount = BURST_ALLOWANCE,
                                   !.Messages = <<0>>, !.IsProcessing = TRUE]

NoReply == [kind |-> "none"]

IdleWorker == [pc |-> "none", msg |-> NoMsg, now |-> 0, wake |-> 0, ok |-> FALSE]
FreeSlots(u) == {k \in Slots : workers[u][k].pc = "none"}

QueueInit ==
    /\ scope \in Scopes
    /\ clock = 0
    /\ messageQueues = {"a"}
    /\ queues = [u \in Users |->
                    IF u # "a" THEN NewQueue(0)
                    ELSE IF scope.start = "burst" THEN BurstQueue
                    ELSE UsedQueue(0)]
    /\ mu = [l \in LockIds |-> [writer |-> NoThread, readers |-> {}]]
    /\ msgs = [m \in Msgs |-> [Status |-> IF m = 0 THEN "queued" ELSE "none",
                               Retries |-> 0,
                               ChatJID |-> IF m = 0 THEN "jid" ELSE ""]]
    /\ handlers = [r \in Reqs |-> [pc |-> "idle", u |-> "", now |-> 0, res |-> "",
                                   body |-> "", dest |-> ""]]
    /\ workers = [u \in Users |-> [k \in Slots |->
                    IF u = "a" /\ k = 1
                    THEN [IdleWorker EXCEPT !.pc = "top"] ELSE IdleWorker]]
    /\ accepted = [u \in Users |-> IF u = "a" THEN <<0>> ELSE <<>>]
    /\ sentLog = [u \in Users |-> <<>>]
    /\ attempts = [m \in Msgs |-> 0]
    /\ callbacks = [m \in Msgs |-> [sent |-> 0, failed |-> 0]]
    /\ anyFail = [u \in Users |-> FALSE]
    /\ reply = [r \in Reqs |-> NoReply]

\* No call of sendMessage is followed.
NoTyping == [pc |-> "none", client |-> "", dest |-> "", len |-> 0,
             events |-> <<>>, res |-> ""]

\* No call of isSpamPattern is followed.
NoSpam == [pc |-> "none", message |-> <<>>, rule |-> ""]

\* No webhook log is followed.
NoLogs == [pc |-> "none"]

\* No WhatsApp state is followed.
NoWA == [pc |-> "none"]

Init ==
    /\ QueueInit
    /\ typing = NoTyping
    /\ spam = NoSpam
    /\ webhookLogs = NoLogs
    /\ waUsers = NoWA

(***************************************************************************)
(* Time                                                                    *)
(***************************************************************************)
\* A thread that has work left.
Unfinished ==
    \/ \E r \in Reqs : handlers[r].pc # "done"
    \/ \E u \in Users, k \in Slots : workers[u][k].pc # "none"

\* A second passes.  The clock is followed for as long as a thread has work
\* left to do.
Tick ==
    /\ clock < scope.horizon
    /\ Unfinished
    /\ clock' = clock + 1
    /\ UNCHANGED <<messageQueues, queues, mu, msgs, handlers, workers, hist>>

(***************************************************************************)
(* The enqueue path of a send request (/api/messages/send, /webhook/)      *)
(***************************************************************************)
\* isSpamPattern(message, userEmail), by the class of the text.
isSpamNever(message, userEmail) == FALSE
isSpamPattern(message, userEmail) == message = "spam"

\* The handler's checks ahead of the queue: the spam check, then the
\* destination.  chat_jid and chat_id are refused when ParseJID fails; a
\* groupId that fails leaves chatJID the zero JID and the request goes on.
Validate(sh, u) ==
    IF isSpamPattern(sh.body, u) THEN "spam"
    ELSE IF sh.dest = "bad" /\ sh.via \in {"chat_jid", "chat_id"} THEN "invalid-jid"
    ELSE "pass"

\* The ChatJID the message is created with: the destination, or the String()
\* of the zero JID.
ChatJIDOf(dest) == IF dest = "ok" THEN "jid" ELSE "zero"

\* A request that the handler refuses with 400 ahead of the queue.
H_reject(r, u, sh) ==
    /\ handlers[r].pc = "idle"
    /\ \A p \in Reqs : p < r => handlers[p].pc # "idle"
    /\ Validate(sh, u) # "pass"
    /\ handlers' = [handlers EXCEPT ![r].pc = "done", ![r].u = u,
                                    ![r].body = sh.body, ![r].dest = sh.dest,
                                    ![r].res = Validate(sh, u)]
    /\ UNCHANGED <<clock, messageQueues, queues, mu, msgs, workers, hist>>

\* getOrCreateQueue: "if queue, exists := messageQueues[userEmail]; exists".
QueueExistsNever(u) == FALSE
QueueExists(u) == u \in messageQueues

\* getOrCreateQueue(email), for a request that has passed the checks
H_getOrCreateQueue(r, u, sh) ==
    /\ handlers[r].pc = "idle"
    /\ \A p \in Reqs : p < r => handlers[p].pc # "idle"
    /\ Validate(sh, u) = "pass"
    /\ CanLock(RegistryLock)
    /\ IF QueueExists(u)
       THEN UNCHANGED <<messageQueues, queues>>
       ELSE /\ messageQueues' = messageQueues \cup {u}
            /\ queues' = [queues EXCEPT ![u] = NewQueue(clock)]
    /\ handlers' = [handlers EXCEPT ![r].pc = "can", ![r].u = u,
                                    ![r].body = sh.body, ![r].dest = sh.dest]
    /\ UNCHANGED <<clock, mu, msgs, workers, hist>>

\* queue.canSendMessage(): q.mu.RLock(); now := time.Now()
H_canEnter(r) ==
    LET l == QueueLock(ReqOwner(r)) IN
    /\ handlers[r].pc = "can"
    /\ CanRLock(l)
    /\ mu' = RLock(l, HandlerThread(r))
    /\ handlers' = [handlers EXCEPT ![r].pc = "can_h", ![r].now = clock]
    /\ UNCHANGED <<clock, messageQueues, queues, msgs, workers, hist>>

\* canSendMessage: the hourly rollover, written under the read lock
H_canHourly(r) ==
    LET u == ReqOwner(r) IN
    /\ handlers[r].pc = "can_h"
    /\ queues' = [queues EXCEPT ![u] = RollHourly(@, handlers[r].now)]
    /\ handlers' = [handlers EXCEPT ![r].pc = "can_x"]
    /\ UNCHANGED <<clock, messageQueues, mu, msgs, workers, hist>>

\* canSendMessage: the daily rollover, the limit checks and the deferred
\* RUnlock; on false the handler answers 429 and ends.
H_canExit(r) ==
    LET u == ReqOwner(r)
        q == RollDaily(queues[u], handlers[r].now)
    IN
    /\ handlers[r].pc = "can_x"
    /\ queues' = [queues EXCEPT ![u] = q]
    /\ mu' = RUnlock(QueueLock(u), HandlerThread(r))
    /\ handlers' = IF WithinLimits(q)
                   THEN [handlers EXCEPT ![r].pc = "add", ![r].now = 0]
                   ELSE [handlers EXCEPT ![r].pc = "done", ![r].now = 0,
                                         ![r].res = "rate-limited"]
    /\ UNCHANGED <<clock, messageQueues, msgs, workers, hist>>

\* queue.addMessage(queuedMsg), the message created with Status "queued"
H_addMessage(r) ==
    LET u == ReqOwner(r)
        q == queues[u]
    IN
    /\ handlers[r].pc = "add"
    /\ CanLock(QueueLock(u))
    /\ IF IsFull(QueueLen(u))
       THEN /\ handlers' = [handlers EXCEPT ![r].pc = "done", ![r].res = "queue-full"]
            /\ UNCHANGED <<queues, msgs, workers, accepted>>
       ELSE /\ handlers' = [handlers EXCEPT ![r].pc = "pos"]
            /\ msgs' = [msgs EXCEPT ![r].Status = "queued",
                                    ![r].ChatJID = ChatJIDOf(handlers[r].dest)]
            /\ accepted' = [accepted EXCEPT ![u] = Append(@, r)]
            /\ IF ShouldSpawn(q)
               THEN /\ queues' = [queues EXCEPT ![u].Messages = Append(@, r),
                                                ![u].IsProcessing = TRUE]
                    /\ IF FreeSlots(u) # {}
                       THEN LET k == CHOOSE k \in FreeSlots(u) :
                                        \A j \in FreeSlots(u) : k <= j
                            IN workers' = [workers EXCEPT ![u][k].pc = "top"]
                       ELSE UNCHANGED workers
               ELSE /\ queues' = [queues EXCEPT ![u].Messages = Append(@, r)]
                    /\ UNCHANGED workers
    /\ UNCHANGED <<side, scope, clock, messageQueues, mu, sentLog, attempts, callbacks,
                   anyFail, reply>>

\* estimateDelay(position), in seconds
estimateDelay(position) ==
    IF position <= 0 THEN 0
    ELSE LET baseDelay == (position - 1) * MESSAGE_DELAY
             burstCycles == (position - 1) \div BURST_ALLOWANCE
         IN IF burstCycles > 0
            THEN baseDelay + burstCycles * BURST_COOLDOWN
            ELSE baseDelay

\* queue.getQueuePosition(queuedMsg.ID), estimateDelay and the response
H_position(r) ==
    LET u == ReqOwner(r)
        position == getQueuePosition(queues[u], r)
    IN
    /\ handlers[r].pc = "pos"
    /\ CanRLock(QueueLock(u))
    /\ handlers' = [handlers EXCEPT ![r].pc = "done", ![r].res = "queued"]
    /\ reply' = [reply EXCEPT ![r] = [kind |-> "queued", position |-> position,
                                      estimated_delay |-> estimateDelay(position)]]
    /\ UNCHANGED <<side, scope, clock, messageQueues, queues, mu, msgs, workers,
                   accepted, sentLog, attempts, callbacks, anyFail>>

(***************************************************************************)
(* The status queries (/api/queue/status, /api/queue/message/<id>)         *)
(***************************************************************************)
\* The user a message was accepted for.
MsgOwner(m) == IF m = 0 THEN "a" ELSE handlers[m].u

\* The queue as a status handler leaves it: it reads the fields under the
\* read lock and does not call canSendMessage.
StatusViewRolled(q, now) == RollDaily(RollHourly(q, now), now)
StatusView(q, now) == q

\* The entry of the message at position i in a response.
MessageEntry(q, i) ==
    [id |-> q.Messages[i], status |-> msgs[q.Messages[i]].Status,
     retries |-> msgs[q.Messages[i]].Retries, position |-> i]

\* The response of /api/queue/status.
QueueStatus(u) ==
    IF u \notin messageQueues
    THEN [kind |-> "status", queue_length |-> 0, messages |-> <<>>,
          hourly_count |-> 0, daily_count |-> 0]
    ELSE LET q == queues[u] IN
         [kind |-> "status", queue_length |-> Len(q.Messages),
          messages |-> [i \in 1..Len(q.Messages) |-> MessageEntry(q, i)],
          hourly_count |-> q.HourlyCount, daily_count |-> q.DailyCount,
          is_processing |-> q.IsProcessing, last_sent |-> q.LastSent]

\* The response of /api/queue/message/<id>: the entry of the first message of
\* the queue with that id, or 404.  "was" is history: the Status the message
\* had when the query was answered.
MessageStatus(u, m) ==
    IF u \in messageQueues /\ getQueuePosition(queues[u], m) > 0
    THEN [kind |-> "message", found |-> TRUE, was |-> msgs[m].Status,
          entry |-> MessageEntry(queues[u], getQueuePosition(queues[u], m))]
    ELSE [kind |-> "message", found |-> FALSE, was |-> msgs[m].Status]

\* GET /api/queue/status by user u
Q_queueStatus(r, u) ==
    /\ scope.queries
    /\ handlers[r].pc = "idle"
    /\ \A p \in Reqs : p < r => handlers[p].pc # "idle"
    /\ CanRLock(RegistryLock)
    /\ u \in messageQueues => CanRLock(QueueLock(u))
    /\ queues' = [queues EXCEPT ![u] = StatusView(@, clock)]
    /\ reply' = [reply EXCEPT ![r] = QueueStatus(u)]
    /\ handlers' = [handlers EXCEPT ![r].pc = "done", ![r].u = u, ![r].res = "status"]
    /\ UNCHANGED <<side, scope, clock, messageQueues, mu, msgs, workers, accepted,
                   sentLog, attempts, callbacks, anyFail>>

\* GET /api/queue/message/<id> by user u, for the id of one of its messages
Q_messageStatus(r, u, m) ==
    /\ scope.queries
    /\ handlers[r].pc = "idle"
    /\ \A p \in Reqs : p < r => handlers[p].pc # "idle"
    /\ msgs[m].Status # "none" /\ MsgOwner(m) = u
    /\ CanRLock(RegistryLock)
    /\ u \in messageQueues => CanRLock(QueueLock(u))
    /\ queues' = [queues EXCEPT ![u] = StatusView(@, clock)]
    /\ reply' = [reply EXCEPT ![r] = MessageStatus(u, m)]
    /\ handlers' = [handlers EXCEPT ![r].pc = "done", ![r].u = u, ![r].res = "message"]
    /\ UNCHANGED <<side, scope, clock, messageQueues, mu, msgs, workers, accepted,
                   sentLog, attempts, callbacks, anyFail>>

HandlerNext(r) ==
    \/ \E u \in ReqUsers(r) : Q_queueStatus(r, u)
    \/ \E u \in ReqUsers(r), m \in Msgs : Q_messageStatus(r, u, m)
    \/ \E u \in ReqUsers(r), sh \in scope.shapes : H_reject(r, u, sh)
    \/ \E u \in ReqUsers(r), sh \in scope.shapes : H_getOrCreateQueue(r, u, sh)
    \/ H_canEnter(r)
    \/ H_canHourly(r)
    \/ H_canExit(r)
    \/ H_addMessage(r)
    \/ H_position(r)

(***************************************************************************)
(* processQueue: the drain goroutine of user u's queue in slot k           *)
(***************************************************************************)
Me(u, k) == workers[u][k]

\* "q.Messages = q.Messages[1:]": what the pop leaves in the queue.
DequeueKeep(s) == s
Dequeue(s) == Tail(s)

\* The head of the loop: the empty check, or the pop of the next message.
\* A goroutine at "human" is in addHumanDelay() (500 to 2000 ms, below the
\* clock's resolution) after an attempt and comes here when that returns.
W_top(u, k) ==
    /\ Me(u, k).pc \in {"top", "human"}
    /\ CanLock(QueueLock(u))
    /\ IF Len(queues[u].Messages) = 0
       THEN /\ workers' = [workers EXCEPT ![u][k].pc = "exit"]
            /\ UNCHANGED queues
       ELSE /\ workers' = [workers EXCEPT ![u][k].pc = "rate",
                                          ![u][k].msg = Head(queues[u].Messages)]
            /\ queues' = [queues EXCEPT ![u].Messages = Dequeue(@)]
    /\ UNCHANGED <<clock, messageQueues, mu, msgs, handlers, hist>>

\* The deferred function: q.mu.Lock(); q.IsProcessing = false; q.mu.Unlock()
W_exit(u, k) ==
    /\ Me(u, k).pc = "exit"
    /\ CanLock(QueueLock(u))
    /\ queues' = [queues EXCEPT ![u].IsProcessing = FALSE]
    /\ workers' = [workers EXCEPT ![u][k] = IdleWorker]
    /\ UNCHANGED <<clock, messageQueues, mu, msgs, handlers, hist>>

\* q.canSendMessage(): q.mu.RLock(); now := time.Now()
W_rateEnter(u, k) ==
    /\ Me(u, k).pc = "rate"
    /\ CanRLock(QueueLock(u))
    /\ mu' = RLock(QueueLock(u), WorkerThread(u, k))
    /\ workers' = [workers EXCEPT ![u][k].pc = "rate_h", ![u][k].now = clock]
    /\ UNCHANGED <<clock, messageQueues, queues, msgs, handlers, hist>>

W_rateHourly(u, k) ==
    /\ Me(u, k).pc = "rate_h"
    /\ queues' = [queues EXCEPT ![u] = RollHourly(@, Me(u, k).now)]
    /\ workers' = [workers EXCEPT ![u][k].pc = "rate_x"]
    /\ UNCHANGED <<clock, messageQueues, mu, msgs, handlers, hist>>

W_rateExit(u, k) ==
    LET q == RollDaily(queues[u], Me(u, k).now) IN
    /\ Me(u, k).pc = "rate_x"
    /\ queues' = [queues EXCEPT ![u] = q]
    /\ mu' = RUnlock(QueueLock(u), WorkerThread(u, k))
    /\ workers' = [workers EXCEPT
                     ![u][k].pc = IF WithinLimits(q) THEN "gate" ELSE "defer",
                     ![u][k].now = 0]
    /\ UNCHANGED <<clock, messageQueues, msgs, handlers, hist>>

\* Where a rate-limited message is put back: at the front.
PutBackTail(q, id) == Append(q.Messages, id)
PutBack(q, id) == <<id>> \o q.Messages

\* "time.Sleep(time.Minute)": when the goroutine wakes.
BackoffNone(now) == now
BackoffUntil(now) == now + MINUTE

\* Rate limited: the message goes back and the goroutine sleeps a minute.
W_defer(u, k) ==
    /\ Me(u, k).pc = "defer"
    /\ CanLock(QueueLock(u))
    /\ queues' = [queues EXCEPT ![u].Messages = PutBack(queues[u], Me(u, k).msg)]
    /\ workers' = [workers EXCEPT ![u][k].pc = "backoff", ![u][k].msg = NoMsg,
                                  ![u][k].wake = BackoffUntil(clock)]
    /\ UNCHANGED <<clock, messageQueues, mu, msgs, handlers, hist>>

W_backoffWake(u, k) ==
    /\ Me(u, k).pc = "backoff"
    /\ clock >= Me(u, k).wake
    /\ workers' = [workers EXCEPT ![u][k].pc = "top", ![u][k].wake = 0]
    /\ UNCHANGED <<clock, messageQueues, queues, mu, msgs, handlers, hist>>

\* "if q.BurstCount >= BURST_ALLOWANCE".
BurstReachedOff(q) == q.BurstCount > BURST_ALLOWANCE
BurstReached(q) == q.BurstCount >= BURST_ALLOWANCE

\* "q.BurstCount = 0"
ResetBurstKeep(q) == q
ResetBurst(q) == [q EXCEPT !.BurstCount = 0]

\* q.mu.Lock(); now := time.Now(); the burst check.  With a cooldown to wait
\* for the lock is released for the sleep, otherwise it stays held.
W_gate(u, k) ==
    LET q == queues[u]
        l == QueueLock(u)
    IN
    /\ Me(u, k).pc = "gate"
    /\ CanLock(l)
    /\ IF BurstReached(q)
       THEN IF q.LastSent # ZeroTime /\ clock - q.LastSent < BURST_COOLDOWN
            THEN /\ workers' = [workers EXCEPT
                        ![u][k].pc = "burstSleep", ![u][k].now = clock,
                        ![u][k].wake = clock + (BURST_COOLDOWN - (clock - q.LastSent))]
                 /\ UNCHANGED <<queues, mu>>
            ELSE /\ queues' = [queues EXCEPT ![u] = ResetBurst(@)]
                 /\ mu' = Lock(l, WorkerThread(u, k))
                 /\ workers' = [workers EXCEPT ![u][k].pc = "delay", ![u][k].now = clock]
       ELSE /\ mu' = Lock(l, WorkerThread(u, k))
            /\ workers' = [workers EXCEPT ![u][k].pc = "delay", ![u][k].now = clock]
            /\ UNCHANGED queues
    /\ UNCHANGED <<clock, messageQueues, msgs, handlers, hist>>

\* After the cooldown: q.mu.Lock(); q.BurstCount = 0
W_burstWake(u, k) ==
    LET l == QueueLock(u) IN
    /\ Me(u, k).pc = "burstSleep"
    /\ clock >= Me(u, k).wake
    /\ CanLock(l)
    /\ mu' = Lock(l, WorkerThread(u, k))
    /\ queues' = [queues EXCEPT ![u] = ResetBurst(@)]
    /\ workers' = [workers EXCEPT ![u][k].pc = "delay", ![u][k].wake = 0]
    /\ UNCHANGED <<clock, messageQueues, msgs, handlers, hist>>

\* "q.mu.Unlock()" ahead of time.Sleep(waitTime) and of sendMessage: the
\* lock's state while the goroutine waits.
KeepLocked(l) == mu
UnlockBeforeWait(l) == Unlock(l)

\* "if !q.LastSent.IsZero()" and "timeSinceLastMessage < MESSAGE_DELAY"
NeedsDelayNever(q, now) == FALSE
NeedsDelay(q, now) == q.LastSent # ZeroTime /\ now - q.LastSent < MESSAGE_DELAY

\* The normal message delay, computed from the now read at the gate; the lock
\* is released, for the sleep or for the send.
W_delay(u, k) ==
    LET q == queues[u]
        now == Me(u, k).now
    IN
    /\ Me(u, k).pc = "delay"
    /\ mu[QueueLock(u)].writer = WorkerThread(u, k)
    /\ mu' = UnlockBeforeWait(QueueLock(u))
    /\ IF NeedsDelay(q, now)
       THEN workers' = [workers EXCEPT
                          ![u][k].pc = "delaySleep", ![u][k].now = 0,
                          ![u][k].wake = clock + (MESSAGE_DELAY - (now - q.LastSent))]
       ELSE workers' = [workers EXCEPT ![u][k].pc = "send", ![u][k].now = 0]
    /\ UNCHANGED <<clock, messageQueues, queues, msgs, handlers, hist>>

\* After the delay: q.mu.Lock(); q.mu.Unlock()
W_delayWake(u, k) ==
    /\ Me(u, k).pc = "delaySleep"
    /\ clock >= Me(u, k).wake
    /\ CanLock(QueueLock(u))
    /\ workers' = [workers EXCEPT ![u][k].pc = "send", ![u][k].wake = 0]
    /\ UNCHANGED <<clock, messageQueues, queues, mu, msgs, handlers, hist>>

\* sendCallback(callbackURL, queueID, status, messageID): nothing for an
\* empty URL, otherwise one POST.
sendCallbackAlways(cb, id, status) == [cb EXCEPT ![id][status] = @ + 1]
sendCallback(cb, id, status) ==
    IF ~HasCallback(id) THEN cb
    ELSE [cb EXCEPT ![id][status] = @ + 1]

\* The send attempts that have failed so far: those counted in Retries and
\* those whose goroutine has not done its bookkeeping yet.
RECURSIVE SumRetries(_)
SumRetries(S) ==
    IF S = {} THEN 0
    ELSE LET x == CHOOSE x \in S : TRUE
         IN msgs[x].Retries + SumRetries(S \ {x})
Failures ==
    SumRetries(Msgs)
    + Cardinality({w \in Users \X Slots :
                     workers[w[1]][w[2]].pc = "post" /\ ~workers[w[1]][w[2]].ok})

\* q.sendMessage(msg) returns.  The goroutine at "send" is inside it, in
\* simulateTyping or client.SendMessage.  It returns false without a
\* connected client, for a chat JID that does not parse and for a transport
\* error; on success it has fired the "sent" callback.
W_send(u, k) ==
    /\ Me(u, k).pc = "send"
    /\ attempts' = [attempts EXCEPT ![Me(u, k).msg] = @ + 1]
    /\ \/ /\ Failures < MaxFails
          /\ workers' = [workers EXCEPT ![u][k].pc = "post", ![u][k].ok = FALSE]
          /\ anyFail' = [anyFail EXCEPT ![u] = TRUE]
          /\ UNCHANGED <<callbacks, sentLog>>
       \/ /\ workers' = [workers EXCEPT ![u][k].pc = "post", ![u][k].ok = TRUE]
          /\ callbacks' = sendCallback(callbacks, Me(u, k).msg, "sent")
          /\ sentLog' = [sentLog EXCEPT ![u] = Append(@, Me(u, k).msg)]
          /\ UNCHANGED anyFail
    /\ UNCHANGED <<side, scope, clock, messageQueues, queues, mu, msgs, handlers,
                   accepted, reply>>

\* "if msg.Retries < MAX_RETRIES": the message is retried.
RetryAgainOff(retries) == retries <= MAX_RETRIES
RetryAgain(retries) == retries < MAX_RETRIES

\* "q.Messages = append(q.Messages, msg)": where a message to retry goes.
RequeueTwice(q, id) == q.Messages \o <<id, id>>
RequeueFront(q, id) == <<id>> \o q.Messages
Requeue(q, id) == Append(q.Messages, id)

\* Where the goroutine goes after the bookkeeping of an attempt that left
\* the message with that Status: on to addHumanDelay() and the next iteration.
AfterAttemptStop(status) == IF status = "failed" THEN "exit" ELSE "human"
AfterAttempt(status) == "human"

\* The queue's counters after a successful send.
SentNoBurst(q, now) ==
    [q EXCEPT !.LastSent = now, !.HourlyCount = @ + 1, !.DailyCount = @ + 1]
Sent(q, now) ==
    [q EXCEPT !.LastSent = now, !.BurstCount = @ + 1,
              !.HourlyCount = @ + 1, !.DailyCount = @ + 1]

\* "msg.Retries++"
NextRetriesSame(retries) == retries
NextRetries(retries) == retries + 1

\* The bookkeeping after sendMessage returned, under the queue lock.
W_post(u, k) ==
    LET id == Me(u, k).msg
        q == queues[u]
        n == NextRetries(msgs[id].Retries)
    IN
    /\ Me(u, k).pc = "post"
    /\ CanLock(QueueLock(u))
    /\ IF Me(u, k).ok
       THEN /\ queues' = [queues EXCEPT ![u] = Sent(@, clock)]
            /\ msgs' = [msgs EXCEPT ![id].Status = "sent"]
            /\ UNCHANGED callbacks
       ELSE IF RetryAgain(n)
            THEN /\ queues' = [queues EXCEPT ![u].Messages = Requeue(q, id)]
                 /\ msgs' = [msgs EXCEPT ![id].Retries = n, ![id].Status = "retrying"]
                 /\ UNCHANGED callbacks
            ELSE /\ msgs' = [msgs EXCEPT ![id].Retries = n, ![id].Status = "failed"]
                 /\ callbacks' = sendCallback(callbacks, id, "failed")
                 /\ UNCHANGED queues
    /\ workers' = [workers EXCEPT ![u][k].pc = AfterAttempt(msgs'[id].Status),
                                  ![u][k].msg = NoMsg, ![u][k].ok = FALSE]
    /\ UNCHANGED <<side, scope, clock, messageQueues, mu, handlers, accepted, sentLog,
                   attempts, anyFail, reply>>

WorkerNext(u, k) ==
    \/ W_top(u, k)
    \/ W_exit(u, k)
    \/ W_rateEnter(u, k)
    \/ W_rateHourly(u, k)
    \/ W_rateExit(u, k)
    \/ W_defer(u, k)
    \/ W_backoffWake(u, k)
    \/ W_gate(u, k)
    \/ W_burstWake(u, k)
    \/ W_delay(u, k)
    \/ W_delayWake(u, k)
    \/ W_send(u, k)
    \/ W_post(u, k)

Next ==
    \/ Tick
    \/ \E r \in Reqs : HandlerNext(r)
    \/ \E u \in Users, k \in Slots : WorkerNext(u, k)

Spec == Init /\ [][Next]_vars

(***************************************************************************)
(* One send attempt: sendMessage and simulateTyping, with the presence     *)
(* signals, the sleeps (in milliseconds) and the transport call in the     *)
(* order in which they happen                                              *)
(***************************************************************************)
\* Milliseconds per character, the longest and the shortest typing time, and
\* the settle pause, 100 + rand.Intn(300).
TYPING_MS_PER_CHAR == 20
TYPING_MAX == 5000
TYPING_MIN == 500
SETTLE_BASE == 100
SETTLE_SPREAD == 300

\* The lengths of the message bodies followed: around every multiple of 25
\* characters, up to MaxBodyLen, on both sides of the two clamps.
MaxBodyLen == 260
BodyLengths == {n \in 0..MaxBodyLen : n % 25 \in {0, 1, 24}}

\* The values of rand.Intn(SETTLE_SPREAD) followed.
Jitters == {0, SETTLE_SPREAD \div 2, SETTLE_SPREAD - 1}

queueVars == <<scope, clock, messageQueues, queues, mu, msgs, handlers, workers,
               accepted, sentLog, attempts, callbacks, anyFail, reply>>

\* typingDuration of simulateTyping
typingDuration(len) ==
    LET d == len * TYPING_MS_PER_CHAR IN
    IF d > TYPING_MAX THEN TYPING_MAX
    ELSE IF d < TYPING_MIN THEN TYPING_MIN
    ELSE d

Event(ev, ms) == [ev |-> ev, ms |-> ms]

\* The queues stand still in one of their initial states while the send
\* attempt is followed.
TypingInit ==
    /\ QueueInit
    /\ scope.start = "burst"
    /\ spam = NoSpam
    /\ webhookLogs = NoLogs
    /\ waUsers = NoWA
    /\ typing \in [pc : {"start"}, client : {"nil", "connected"}, dest : {"ok", "bad"},
                   len : BodyLengths, events : {<<>>}, res : {""}]

\* sendMessage: the user's client
T_client ==
    /\ typing.pc = "start"
    /\ typing' = IF typing.client = "nil"
                 THEN [typing EXCEPT !.pc = "done", !.res = "false"]
                 ELSE [typing EXCEPT !.pc = "parse"]
    /\ UNCHANGED <<queueVars, spam, webhookLogs, waUsers>>

\* sendMessage: types.ParseJID(msg.ChatJID)
T_parseJID ==
    /\ typing.pc = "parse"
    /\ typing' = IF typing.dest = "bad"
                 THEN [typing EXCEPT !.pc = "done", !.res = "false"]
                 ELSE [typing EXCEPT !.pc = "composing"]
    /\ UNCHANGED <<queueVars, spam, webhookLogs, waUsers>>

\* simulateTyping: SendChatPresence(ChatPresenceComposing)
T_composing ==
    /\ typing.pc = "composing"
    /\ typing' = [typing EXCEPT !.pc = "typing",
                                !.events = Append(@, Event("composing", 0))]
    /\ UNCHANGED <<queueVars, spam, webhookLogs, waUsers>>

\* simulateTyping: time.Sleep(typingDuration)
T_typingSleep ==
    /\ typing.pc = "typing"
    /\ typing' = [typing EXCEPT !.pc = "paused",
                     !.events = Append(@, Event("sleep", typingDuration(typing.len)))]
    /\ UNCHANGED <<queueVars, spam, webhookLogs, waUsers>>

\* simulateTyping: SendChatPresence(ChatPresencePaused)
T_paused ==
    /\ typing.pc = "paused"
    /\ typing' = [typing EXCEPT !.pc = "settle",
                                !.events = Append(@, Event("paused", 0))]
    /\ UNCHANGED <<queueVars, spam, webhookLogs, waUsers>>

\* simulateTyping: the small pause after typing
T_settle ==
    /\ typing.pc = "settle"
    /\ \E j \in Jitters :
         typing' = [typing EXCEPT !.pc = "send",
                       !.events = Append(@, Event("sleep", SETTLE_BASE + j))]
    /\ UNCHANGED <<queueVars, spam, webhookLogs, waUsers>>

\* sendMessage: client.SendMessage, which fails or not
T_send ==
    /\ typing.pc = "send"
    /\ \E ok \in BOOLEAN :
         typing' = IF ok
                   THEN [typing EXCEPT !.pc = "callback",
                                       !.events = Append(@, Event("send", 0))]
                   ELSE [typing EXCEPT !.pc = "done", !.res = "false",
                                       !.events = Append(@, Event("send", 0))]
    /\ UNCHANGED <<queueVars, spam, webhookLogs, waUsers>>

\* sendMessage: sendCallback(..., "sent", ...) and return true
T_callback ==
    /\ typing.pc = "callback"
    /\ typing' = [typing EXCEPT !.pc = "done", !.res = "true",
                                !.events = Append(@, Event("callback", 0))]
    /\ UNCHANGED <<queueVars, spam, webhookLogs, waUsers>>

TypingNext ==
    \/ T_client
    \/ T_parseJID
    \/ T_composing
    \/ T_typingSleep
    \/ T_paused
    \/ T_settle
    \/ T_send
    \/ T_callback

TypingSpec == TypingInit /\ [][TypingNext]_vars

(***************************************************************************)
(* isSpamPattern, rule by rule.  A message is a sequence of runes (code    *)
(* points); Go indexes and measures it by the bytes of its UTF-8 encoding  *)
(* and ranges over it by runes.                                            *)
(***************************************************************************)
\* The runes followed: m, l, M, space, !, e-acute (two bytes) and the sun
\* sign U+2600 (three bytes, in the emoji ranges).
Runes == {109, 108, 77, 32, 33, 233, 9728}

\* A message is made of at most MaxRuns runs of one rune, each of a length in
\* RunLengths: up to MaxRun, on both sides of the run of 5 and of the ratios.
MaxRuns == 3
MaxRun == 8
RunLengths == {n \in 1..MaxRun : n \notin {2, 6}}
Run(r, n) == [i \in 1..n |-> r]
RECURSIVE MessagesOf(_)
MessagesOf(k) ==
    IF k = 0 THEN {<<>>}
    ELSE LET shorter == MessagesOf(k - 1) IN
         shorter \cup {m \o Run(r, n) : m \in shorter, r \in Runes, n \in RunLengths}
Messages == MessagesOf(MaxRuns)

\* The UTF-8 encoding of a rune
UTF8(r) ==
    IF r < 128 THEN <<r>>
    ELSE IF r < 2048 THEN <<192 + (r \div 64), 128 + (r % 64)>>
    ELSE IF r < 65536
         THEN <<224 + (r \div 4096), 128 + ((r \div 64) % 64), 128 + (r % 64)>>
         ELSE <<240 + (r \div 262144), 128 + ((r \div 4096) % 64),
                128 + ((r \div 64) % 64), 128 + (r % 64)>>

\* The bytes of a string: what len(message) and message[i] see
RECURSIVE Bytes(_)
Bytes(message) ==
    IF message = <<>> THEN <<>>
    ELSE UTF8(Head(message)) \o Bytes(Tail(message))

\* strings.ToLower, on the runes followed
ToLower(message) ==
    [i \in 1..Len(message) |->
        IF message[i] >= 65 /\ message[i] <= 90 THEN message[i] + 32
        ELSE message[i]]

\* strings.Contains
Contains(b, k) ==
    \E i \in 0..(Len(b) - Len(k)) : SubSeq(b, i + 1, i + Len(k)) = k

\* The spam keywords that the runes followed can spell: "mlm"
spamKeywords == {<<109, 108, 109>>}

\* Rule 1: a spam keyword in the lowercased message
hasSpamKeyword(message) ==
    \E keyword \in spamKeywords : Contains(Bytes(ToLower(message)), Bytes(keyword))

IsUpper(char) == char >= 65 /\ char <= 90
IsLetter(char) == IsUpper(char) \/ (char >= 97 /\ char <= 122)

\* Rule 2: excessive capitalization.  capsCount / letterCount > 0.7 in
\* float64 is capsCount * 10 > letterCount * 7: the quotient of 7k by 10k is
\* the float64 nearest to 0.7, which is the constant 0.7 itself.
excessiveCaps(message) ==
    LET letterCount == Cardinality({i \in 1..Len(message) : IsLetter(message[i])})
        capsCount == Cardinality({i \in 1..Len(message) : IsUpper(message[i])})
    IN /\ Len(Bytes(message)) > 10
       /\ letterCount > 0
       /\ capsCount * 10 > letterCount * 7

\* The bytes equal to b[i] that follow it, j being the next index to look at
\* (indexes from 0, as in the code)
RECURSIVE repeats(_, _, _)
repeats(b, i, j) ==
    IF j < Len(b) /\ j < i + 10 /\ b[j + 1] = b[i + 1]
    THEN 1 + repeats(b, i, j + 1)
    ELSE 0

\* Rule 3: excessive repetition of characters
excessiveRepetition(message) ==
    LET b == Bytes(message) IN
    /\ Len(b) > 5
    /\ \E i \in 0..(Len(b) - 5) :
         /\ b[i + 1] # 32
         /\ 1 + repeats(b, i, i + 1) >= 5

IsEmoji(r) ==
    \/ r >= 128512 /\ r <= 128591
    \/ r >= 127744 /\ r <= 128511
    \/ r >= 128640 /\ r <= 128767
    \/ r >= 9728 /\ r <= 9983
    \/ r >= 9984 /\ r <= 10175

\* Rule 4: excessive emojis.  emojiCount / runeCount > 0.3 in float64 is
\* emojiCount * 10 > runeCount * 3, as for rule 2.
excessiveEmojis(message) ==
    LET runeCount == Len(message)
        emojiCount == Cardinality({i \in 1..Len(message) : IsEmoji(message[i])})
    IN runeCount > 0 /\ emojiCount * 10 > runeCount * 3

spamRest == <<queueVars, typing, webhookLogs, waUsers>>

SpamInit ==
    /\ QueueInit
    /\ scope.start = "burst"
    /\ typing = NoTyping
    /\ webhookLogs = NoLogs
    /\ waUsers = NoWA
    /\ spam \in [pc : {"keywords"}, message : Messages, rule : {""}]

\* isSpamPattern: the keywords; return true on a match, else go on
S_keywords ==
    /\ spam.pc = "keywords"
    /\ spam' = IF hasSpamKeyword(spam.message)
               THEN [spam EXCEPT !.pc = "done", !.rule = "keyword"]
               ELSE [spam EXCEPT !.pc = "caps"]
    /\ UNCHANGED spamRest

\* isSpamPattern: the capitalization
S_caps ==
    /\ spam.pc = "caps"
    /\ spam' = IF excessiveCaps(spam.message)
               THEN [spam EXCEPT !.pc = "done", !.rule = "caps"]
               ELSE [spam EXCEPT !.pc = "repetition"]
    /\ UNCHANGED spamRest

\* isSpamPattern: the repetition of characters
S_repetition ==
    /\ spam.pc = "repetition"
    /\ spam' = IF excessiveRepetition(spam.message)
               THEN [spam EXCEPT !.pc = "done", !.rule = "repetition"]
               ELSE [spam EXCEPT !.pc = "emojis"]
    /\ UNCHANGED spamRest

\* isSpamPattern: the emojis, and return false
S_emojis ==
    /\ spam.pc = "emojis"
    /\ spam' = IF excessiveEmojis(spam.message)
               THEN [spam EXCEPT !.pc = "done", !.rule = "emojis"]
               ELSE [spam EXCEPT !.pc = "done"]
    /\ UNCHANGED spamRest

SpamNext ==
    \/ S_keywords
    \/ S_caps
    \/ S_repetition
    \/ S_emojis

SpamSpec == SpamInit /\ [][SpamNext]_vars

(***************************************************************************)
(* The webhook logs: addWebhookLog and getWebhookLogs, called concurrently *)
(***************************************************************************)
\* The entries kept per webhook (5 in the code), the threads that call, and
\* the calls they make in all.
LOG_LIMIT == 2
MaxLogThreads == 2
MaxLogCalls == 5
LogThreads == 1..MaxLogThreads
Webhooks == {"w1", "w2"}

\* A slice: its backing array (0 for nil) and its entries.
NilSlice == [arr |-> 0, entries |-> <<>>]
IdleCall == [pc |-> "idle", op |-> "", w |-> "", entry |-> 0, res |-> NilSlice]

logRest == <<queueVars, typing, spam, waUsers>>

LogInit ==
    /\ QueueInit
    /\ scope.start = "burst"
    /\ typing = NoTyping
    /\ spam = NoSpam
    /\ waUsers = NoWA
    /\ webhookLogs = [pc |-> "run", mu |-> 0,
                      logs |-> [w \in Webhooks |-> NilSlice],
                      added |-> [w \in Webhooks |-> <<>>],
                      calls |-> [t \in LogThreads |-> IdleCall],
                      issued |-> 0, arrays |-> 0]

\* A thread calls addWebhookLog(w, payload) or getWebhookLogs(w); the payload
\* is told apart by the number of the call.
L_call(t) ==
    /\ webhookLogs.pc = "run"
    /\ webhookLogs.calls[t].pc = "idle"
    /\ webhookLogs.issued < MaxLogCalls
    /\ \E op \in {"add", "get"}, w \in Webhooks :
         webhookLogs' = [webhookLogs EXCEPT
             !.issued = @ + 1,
             !.calls[t] = [pc |-> "lock", op |-> op, w |-> w,
                           entry |-> IF op = "add" THEN webhookLogs.issued + 1 ELSE 0,
                           res |-> NilSlice]]
    /\ UNCHANGED logRest

\* webhookLogs.mu.Lock()
L_lock(t) ==
    /\ webhookLogs.pc = "run"
    /\ webhookLogs.calls[t].pc = "lock"
    /\ webhookLogs.mu = 0
    /\ webhookLogs' = [webhookLogs EXCEPT !.mu = t,
                                          !.calls[t].pc = webhookLogs.calls[t].op]
    /\ UNCHANGED logRest

\* entries = entries[len(entries)-5:] when there are more than 5
TruncateHead(entries) ==
    IF Len(entries) > LOG_LIMIT THEN SubSeq(entries, 1, LOG_LIMIT) ELSE entries
Truncate(entries) ==
    IF Len(entries) > LOG_LIMIT
    THEN SubSeq(entries, Len(entries) - LOG_LIMIT + 1, Len(entries))
    ELSE entries

\* addWebhookLog under the mutex: append, truncate, store.  append writes
\* into the backing array or, always for a nil slice, into a new one.
L_add(t) ==
    LET c == webhookLogs.calls[t]
        old == webhookLogs.logs[c.w]
    IN
    /\ webhookLogs.pc = "run"
    /\ c.pc = "add"
    /\ \E fresh \in BOOLEAN :
         /\ old.arr = 0 => fresh
         /\ webhookLogs' = [webhookLogs EXCEPT
               !.arrays = IF fresh THEN @ + 1 ELSE @,
               !.logs[c.w] = [arr |-> IF fresh THEN webhookLogs.arrays + 1 ELSE old.arr,
                              entries |-> Truncate(Append(old.entries, c.entry))],
               !.added[c.w] = Append(@, c.entry),
               !.calls[t].pc = "unlock"]
    /\ UNCHANGED logRest

\* getWebhookLogs under the mutex: append([]WebhookLogEntry(nil), logs...)
L_get(t) ==
    LET c == webhookLogs.calls[t] IN
    /\ webhookLogs.pc = "run"
    /\ c.pc = "get"
    /\ webhookLogs' = [webhookLogs EXCEPT
          !.arrays = IF webhookLogs.logs[c.w].entries = <<>> THEN @ ELSE @ + 1,
          !.calls[t].res = IF webhookLogs.logs[c.w].entries = <<>> THEN NilSlice
                           ELSE [arr |-> webhookLogs.arrays + 1,
                                 entries |-> webhookLogs.logs[c.w].entries],
          !.calls[t].pc = "unlock"]
    /\ UNCHANGED logRest

\* defer webhookLogs.mu.Unlock(), and the return
L_unlock(t) ==
    /\ webhookLogs.pc = "run"
    /\ webhookLogs.calls[t].pc = "unlock"
    /\ webhookLogs' = [webhookLogs EXCEPT !.mu = 0, !.calls[t].pc = "idle"]
    /\ UNCHANGED logRest

LogNext ==
    \E t \in LogThreads :
        \/ L_call(t)
        \/ L_lock(t)
        \/ L_add(t)
        \/ L_get(t)
        \/ L_unlock(t)

LogSpec == LogInit /\ [][LogNext]_vars

(***************************************************************************)
(* One user's WhatsApp state: /api/wa/connect, which starts                *)
(* startUserWhatsMeowConnection in a goroutine, and disconnectUserWhatsMeow *)
(* Each section between state.mu.Lock() and Unlock() is one step.          *)
(***************************************************************************)
\* The threads that serve requests of the user, and the requests in all.
MaxWAThreads == 2
MaxWACalls == 3
WAThreads == 1..MaxWAThreads

\* nil, for waClient and waCancel
Nil == 0
IdleWACall == [pc |-> "idle", ctx |-> Nil, client |-> Nil]

waRest == <<queueVars, typing, spam, webhookLogs>>

WAInit ==
    /\ QueueInit
    /\ scope.start = "burst"
    /\ typing = NoTyping
    /\ spam = NoSpam
    /\ webhookLogs = NoLogs
    /\ waUsers = [pc |-> "run",
                  state |-> [waClient |-> Nil, waCancel |-> Nil,
                             waStatus |-> "disconnected"],
                  calls |-> [t \in WAThreads |-> IdleWACall],
                  issued |-> 0,        \* requests made
                  clients |-> 0,       \* clients created by whatsmeow.NewClient
                  disconnects |-> 0]   \* calls of disconnectUserWhatsMeow

\* /api/wa/connect: "Already connected", or go startUserWhatsMeowConnection
A_connect(t) ==
    /\ waUsers.pc = "run"
    /\ waUsers.calls[t].pc = "idle"
    /\ waUsers.issued < MaxWACalls
    /\ waUsers' = [waUsers EXCEPT
          !.issued = @ + 1,
          !.calls[t] = IF waUsers.state.waStatus = "connected"
                       THEN IdleWACall
                       ELSE [IdleWACall EXCEPT !.pc = "check"]]
    /\ UNCHANGED waRest

\* "if state.waClient != nil { ... return }", under state.mu
A_check(t) ==
    /\ waUsers.pc = "run"
    /\ waUsers.calls[t].pc = "check"
    /\ waUsers' = [waUsers EXCEPT
          !.calls[t].pc = IF waUsers.state.waClient # Nil THEN "idle" ELSE "cancel"]
    /\ UNCHANGED waRest

\* ctx, cancel := context.WithCancel(...); state.waCancel = cancel, under
\* state.mu.  The context is told apart by the number of the request.
A_setCancel(t) ==
    /\ waUsers.pc = "run"
    /\ waUsers.calls[t].pc = "cancel"
    /\ waUsers' = [waUsers EXCEPT
          !.state.waCancel = waUsers.issued * MaxWAThreads + t,
          !.calls[t].ctx = waUsers.issued * MaxWAThreads + t,
          !.calls[t].pc = "create"]
    /\ UNCHANGED waRest

\* sqlstore.New and GetFirstDevice, which fail or not, and whatsmeow.NewClient
A_newClient(t) ==
    /\ waUsers.pc = "run"
    /\ waUsers.calls[t].pc = "create"
    /\ \E err \in BOOLEAN :
         waUsers' = IF err
                    THEN [waUsers EXCEPT !.state.waStatus = "error",
                                         !.calls[t] = IdleWACall]
                    ELSE [waUsers EXCEPT !.clients = @ + 1,
                                         !.calls[t].client = waUsers.clients + 1,
                                         !.calls[t].pc = "store"]
    /\ UNCHANGED waRest

\* state.waClient = client, under state.mu
A_setClient(t) ==
    /\ waUsers.pc = "run"
    /\ waUsers.calls[t].pc = "store"
    /\ waUsers' = [waUsers EXCEPT !.state.waClient = waUsers.calls[t].client,
                                  !.calls[t].pc = "connect"]
    /\ UNCHANGED waRest

\* client.Connect() with its outcome, in the goroutine of an existing session
A_connected(t) ==
    /\ waUsers.pc = "run"
    /\ waUsers.calls[t].pc = "connect"
    /\ \E err \in BOOLEAN :
         waUsers' = [waUsers EXCEPT
             !.state.waStatus = IF err THEN "error" ELSE "connected",
             !.calls[t] = IdleWACall]
    /\ UNCHANGED waRest

\* disconnectUserWhatsMeow: cancel and clear waCancel, disconnect and clear
\* waClient, under state.mu; then the status
A_disconnect(t) ==
    /\ waUsers.pc = "run"
    /\ waUsers.calls[t].pc = "idle"
    /\ waUsers.issued < MaxWACalls
    /\ waUsers' = [waUsers EXCEPT
          !.issued = @ + 1,
          !.disconnects = @ + 1,
          !.state = [waClient |-> Nil, waCancel |-> Nil,
                     waStatus |-> "disconnected"]]
    /\ UNCHANGED waRest

WANext ==
    \E t \in WAThreads :
        \/ A_connect(t)
        \/ A_check(t)
        \/ A_setCancel(t)
        \/ A_newClient(t)
        \/ A_setClient(t)
        \/ A_connected(t)
        \/ A_disconnect(t)

WASpec == WAInit /\ [][WANext]_vars

(***************************************************************************)
(* Properties                                                              *)
(***************************************************************************)
ActiveSlots(u) == {k \in Slots : workers[u][k].pc # "none"}
Holds(l, t) == mu[l].writer = t \/ t \in mu[l].readers
InQueue(u, m) == \E i \in 1..Len(queues[u].Messages) : queues[u].Messages[i] = m
InHand(m) == \E u \in Users, k \in Slots : workers[u][k].msg = m
Succeeded(m) == \E u \in Users : \E i \in 1..Len(sentLog[u]) : sentLog[u][i] = m
IsPrefix(s, t) == Len(s) <= Len(t) /\ \A i \in 1..Len(s) : s[i] = t[i]
SleepPcs == {"backoff", "burstSleep", "delaySleep", "send", "human"}

\* C1: a queue never has more than one processQueue goroutine, IsProcessing
\* is true for as long as it has one, and a goroutine is started only by the
\* step of addMessage that finds IsProcessing false and sets it.
C1_OneWorker ==
    \A u \in Users :
        /\ Cardinality(ActiveSlots(u)) <= 1
        /\ ActiveSlots(u) # {} => queues[u].IsProcessing
C1_SpawnOnlyByAdd ==
    \A u \in Users, k \in Slots :
        workers[u][k].pc = "none" /\ workers'[u][k].pc # "none"
        => /\ ~queues[u].IsProcessing /\ queues'[u].IsProcessing
           /\ CanLock(QueueLock(u))
           /\ \E r \in Reqs : /\ handlers[r].pc = "add" /\ handlers[r].u = u
                              /\ handlers'[r].pc = "pos"
C1_SingleWorker == []C1_OneWorker /\ [][C1_SpawnOnlyByAdd]_vars
\* b's first message has been accepted and has started b's goroutine.
C1_Witness ==
    \E r \in Reqs :
        /\ handlers[r].u = "b" /\ handlers[r].pc = "pos"
        /\ queues["b"].IsProcessing /\ ActiveSlots("b") = {1}
        /\ ActiveSlots("a") = {1}

\* C2: whenever a queue's lock is free and IsProcessing is false, the queue
\* holds no pending message.
C2_IdleMeansEmpty ==
    \A u \in messageQueues :
        CanLock(QueueLock(u)) /\ ~queues[u].IsProcessing
        => queues[u].Messages = <<>>

\* C3: an accepted message reaches "sent" or "failed" without a later
\* enqueue: once every request has been answered and no goroutine is left,
\* no message is short of a terminal status.
C3_NoneStranded ==
    (/\ \A r \in Reqs : handlers[r].pc = "done"
     /\ \A u \in Users : ActiveSlots(u) = {})
    => \A m \in Msgs : msgs[m].Status \in {"none", "sent", "failed"}

\* C4: a queue never holds more than MAX_QUEUE_PER_USER pending messages.
C4_Capacity ==
    \A u \in Users : Len(queues[u].Messages) <= MAX_QUEUE_PER_USER

\* C5: HourlyCount and DailyCount never exceed their limits, and the
\* goroutine is never on its way to a send, past the rate check, with either
\* counter at its limit.
C5_Ceilings ==
    \A u \in Users :
        /\ queues[u].HourlyCount <= MAX_HOURLY_MESSAGES
        /\ queues[u].DailyCount <= MAX_DAILY_MESSAGES
        /\ \A k \in Slots :
              workers[u][k].pc \in {"gate", "burstSleep", "delay", "delaySleep",
                                    "send", "post"}
              => /\ queues[u].HourlyCount < MAX_HOURLY_MESSAGES
                 /\ queues[u].DailyCount < MAX_DAILY_MESSAGES
\* The hourly limit is reached and the goroutine has put a message back.
C5_Witness ==
    \E k \in Slots :
        /\ workers["a"][k].pc = "backoff"
        /\ queues["a"].HourlyCount = MAX_HOURLY_MESSAGES
        /\ queues["a"].Messages # <<>>
        /\ Len(sentLog["a"]) >= 1

C7_FailedAfterMaxRetries ==
    \A m \in Msgs :
        /\ attempts[m] <= MAX_RETRIES
        /\ msgs[m].Retries <= MAX_RETRIES
        /\ msgs[m].Retries = MAX_RETRIES
           => /\ msgs[m].Status = "failed"
              /\ attempts[m] = MAX_RETRIES
              /\ callbacks[m].sent = 0
              /\ callbacks[m].failed = IF HasCallback(m) THEN 1 ELSE 0
              /\ ~InHand(m) /\ \A u \in Users : ~InQueue(u, m)
        /\ msgs[m].Retries < MAX_RETRIES
           => msgs[m].Status # "failed" /\ callbacks[m].failed = 0
C7_Witness ==
    \E m \in Msgs :
        /\ HasCallback(m)
        /\ msgs[m].Status = "failed"
        /\ attempts[m] = MAX_RETRIES
        /\ callbacks[m].failed = 1

\* C8: a message whose attempt k <= 3 succeeds becomes "sent", has fired one
\* "sent" callback if it has a callback URL and none otherwise, never a
\* "failed" callback, and its failed attempts before have fired nothing.
C8_SentOnce ==
    \A m \in Msgs :
        /\ callbacks[m].sent = IF HasCallback(m) /\ Succeeded(m) THEN 1 ELSE 0
        /\ \A u \in Users :
              Cardinality({i \in 1..Len(sentLog[u]) : sentLog[u][i] = m}) <= 1
        /\ Succeeded(m)
           => /\ callbacks[m].failed = 0
              /\ attempts[m] = msgs[m].Retries + 1
              /\ attempts[m] <= MAX_RETRIES
              /\ \/ msgs[m].Status = "sent" /\ ~InHand(m)
                 \/ \E u \in Users, k \in Slots :
                       /\ workers[u][k].pc = "post" /\ workers[u][k].ok
                       /\ workers[u][k].msg = m
        /\ msgs[m].Status = "sent" => Succeeded(m)
\* A message with a callback URL was sent at its second or third attempt.
C8_Witness ==
    \E m \in Msgs :
        /\ HasCallback(m)
        /\ msgs[m].Status = "sent"
        /\ msgs[m].Retries >= 1
        /\ callbacks[m].sent = 1

\* C9: capacity is per user.  A step of a thread of user a changes nothing
\* of another user's queue, lock or goroutines, and addMessage is refused
\* exactly when the user's own queue holds MAX_QUEUE_PER_USER messages.
C9_Isolation ==
    \A a \in Users :
        (\/ \E r \in Reqs : handlers'[r].u = a /\ handlers'[r] # handlers[r]
         \/ workers'[a] # workers[a]
         \/ queues'[a] # queues[a])
        => \A b \in Users \ {a} :
              /\ queues'[b] = queues[b]
              /\ workers'[b] = workers[b]
              /\ mu'[QueueLock(b)] = mu[QueueLock(b)]
              /\ (b \in messageQueues') = (b \in messageQueues)
C9_AddOutcome ==
    \A r \in Reqs :
        handlers[r].pc = "add" /\ handlers'[r].pc # "add"
        => LET u == handlers[r].u IN
           IF Len(queues[u].Messages) >= MAX_QUEUE_PER_USER
           THEN /\ handlers'[r].pc = "done" /\ handlers'[r].res = "queue-full"
                /\ queues'[u] = queues[u]
           ELSE /\ handlers'[r].pc = "pos"
                /\ queues'[u].Messages = Append(queues[u].Messages, r)
C9_PerUserCapacity == [][C9_Isolation /\ C9_AddOutcome]_vars
\* a's queue is full and has refused a request, and b's has accepted one.
C9_Witness ==
    \E r1, r2 \in Reqs :
        /\ handlers[r1].u = "a" /\ handlers[r1].res = "queue-full"
        /\ handlers[r2].u = "b" /\ handlers[r2].pc \in {"pos", "done"}
        /\ msgs[r2].Status = "queued"
        /\ Len(queues["a"].Messages) >= MAX_QUEUE_PER_USER

\* C10: a processQueue goroutine never holds the registry lock or the lock
\* of another user's queue, so an enqueue for b never waits for a's goroutine.
C10_NoForeignLock ==
    \A a \in Users, k \in Slots :
        /\ ~Holds(RegistryLock, WorkerThread(a, k))
        /\ \A b \in Users \ {a} : ~Holds(QueueLock(b), WorkerThread(a, k))
\* a's goroutine is asleep while b's handler is inside canSendMessage.
C10_Witness ==
    \E k \in Slots, r \in Reqs :
        /\ workers["a"][k].pc \in SleepPcs
        /\ handlers[r].u = "b" /\ handlers[r].pc = "can_h"
        /\ Holds(QueueLock("b"), HandlerThread(r))

\* C11: a processQueue goroutine never holds its own queue's lock while it
\* waits: in the rate-limit backoff, the burst cooldown, the message delay,
\* the send (typing simulation and transport) or the human delay.
C11_NoLockWhileWaiting ==
    \A u \in Users, k \in Slots :
        workers[u][k].pc \in SleepPcs
        => ~Holds(QueueLock(u), WorkerThread(u, k))
\* a's goroutine is in its message delay while a handler of a is inside
\* canSendMessage, holding the queue's read lock.
C11_Witness ==
    \E k \in Slots, r \in Reqs :
        /\ workers["a"][k].pc = "delaySleep"
        /\ handlers[r].u = "a" /\ handlers[r].pc = "can_h"
        /\ Holds(QueueLock("a"), HandlerThread(r))

\* C12: the fields of a queue are written only under its exclusive lock, so
\* no two threads are at the same time inside a section that writes them;
\* this includes the window rollover of canSendMessage.
C12_HandlerInRollover(u) ==
    {r \in Reqs : handlers[r].u = u /\ handlers[r].pc = "can_h"
                  /\ handlers[r].now > queues[u].HourlyReset}
C12_WorkerInRollover(u) ==
    {k \in Slots : workers[u][k].pc = "rate_h"
                   /\ workers[u][k].now > queues[u].HourlyReset}
C12_ExclusiveWrites ==
    \A u \in Users :
        Cardinality(C12_HandlerInRollover(u)) + Cardinality(C12_WorkerInRollover(u)) <= 1

\* C13: addMessage checks the capacity and appends in one step under the
\* lock: a call is refused exactly when the queue holds MAX_QUEUE_PER_USER
\* messages at that step, an accepted call makes the queue one longer, and a
\* refused call changes no field of the queue and starts no goroutine.
C13_AddStep ==
    \A r \in Reqs :
        handlers[r].pc = "add" /\ handlers'[r].pc # "add"
        => LET u == handlers[r].u
               n == Len(queues[u].Messages)
           IN
           /\ CanLock(QueueLock(u))
           /\ IF n >= MAX_QUEUE_PER_USER
              THEN /\ handlers'[r].res = "queue-full"
                   /\ UNCHANGED <<queues, workers, msgs, accepted>>
              ELSE /\ Len(queues'[u].Messages) = n + 1
                   /\ queues'[u].Messages[n + 1] = r
                   /\ accepted'[u] = Append(accepted[u], r)
                   /\ msgs'[r].Status = "queued"
C13_AtomicAdd == [][C13_AddStep]_vars
\* Two calls for a's queue race for its one free place: one has been accepted
\* and the other is still to run, and finds the queue full.
C13_Witness ==
    \E r1, r2 \in Reqs :
        /\ r1 # r2 /\ handlers[r1].u = "a" /\ handlers[r2].u = "a"
        /\ handlers[r1].pc = "pos" /\ handlers[r2].pc = "add"
        /\ Len(queues["a"].Messages) = MAX_QUEUE_PER_USER

\* C14: a request whose destination does not parse is refused at once and
\* no message is queued for it, by either entry point and field.
C14_BadDestinationRefused ==
    \A r \in Reqs :
        handlers[r].dest = "bad"
        => /\ msgs[r].Status = "none"
           /\ \A u \in Users : ~InQueue(u, r)

\* C15: a request whose text the spam check refuses ends before any queue is
\* looked up or created: the step that refuses it changes no queue, counter,
\* lock, message or goroutine and creates no queue, and nothing is ever
\* queued for it.
C15_SpamStep ==
    \A r \in Reqs :
        handlers[r].pc = "idle" /\ handlers'[r].body = "spam"
        => /\ handlers'[r].pc = "done" /\ handlers'[r].res = "spam"
           /\ UNCHANGED <<messageQueues, queues, mu, msgs, workers, accepted>>
C15_SpamNeverQueued ==
    \A r \in Reqs :
        handlers[r].body = "spam"
        => /\ handlers[r].pc = "done" /\ handlers[r].res = "spam"
           /\ msgs[r].Status = "none"
           /\ \A u \in Users : ~InQueue(u, r)
C15_SpamRefusedFirst == []C15_SpamNeverQueued /\ [][C15_SpamStep]_vars
\* b's first request was refused as spam and b has no queue.
C15_Witness ==
    \E r \in Reqs :
        /\ handlers[r].u = "b" /\ handlers[r].res = "spam"
        /\ "b" \notin messageQueues
        /\ \A p \in Reqs : handlers[p].pc \in {"idle", "done"}

\* C16: at admission a request is refused as rate-limited, with nothing
\* queued, exactly when after the lazy rollover of the windows HourlyCount or
\* DailyCount is at its limit; a message that is already accepted is never
\* refused or dropped for a limit reached later, it is put back and waits.
C16_Rolled ==
    \A r \in Reqs :
        handlers[r].pc = "can_x"
        => handlers[r].now <= queues[handlers[r].u].HourlyReset
C16_AdmissionStep ==
    \A r \in Reqs :
        handlers[r].pc = "can_x" /\ handlers'[r].pc # "can_x"
        => LET q == queues[handlers[r].u]
               daily == IF handlers[r].now > q.DailyReset THEN 0 ELSE q.DailyCount
           IN
           IF q.HourlyCount >= MAX_HOURLY_MESSAGES \/ daily >= MAX_DAILY_MESSAGES
           THEN /\ handlers'[r].pc = "done" /\ handlers'[r].res = "rate-limited"
                /\ msgs' = msgs /\ accepted' = accepted
                /\ queues'[handlers[r].u].Messages = q.Messages
           ELSE handlers'[r].pc = "add"
C16_DeferStep ==
    \A u \in Users, k \in Slots :
        /\ workers[u][k].pc = "rate_x" /\ workers'[u][k].pc = "defer"
           => workers'[u][k].msg = workers[u][k].msg /\ msgs' = msgs
        /\ workers[u][k].pc = "defer" /\ workers'[u][k].pc # "defer"
           => /\ msgs' = msgs
              /\ \E i \in 1..Len(queues'[u].Messages) :
                    queues'[u].Messages[i] = workers[u][k].msg
C16_AdmissionLimit ==
    []C16_Rolled /\ [][C16_AdmissionStep /\ C16_DeferStep]_vars
\* A request has been refused at the hourly limit while an earlier message,
\* accepted before the limit was reached, waits in the queue, put back.
C16_Witness ==
    \E r \in Reqs, k \in Slots :
        /\ handlers[r].u = "a" /\ handlers[r].res = "rate-limited"
        /\ msgs[r].Status = "none"
        /\ queues["a"].HourlyCount = MAX_HOURLY_MESSAGES
        /\ workers["a"][k].pc = "backoff"
        /\ \E m \in Reqs : InQueue("a", m) /\ msgs[m].Status = "queued"

\* C17: a message's Status moves only along queued -> sending ->
\* {sent, retrying, failed} and retrying -> queued: it is "sending" for the
\* whole of every transport attempt, and "queued" again once it is back in
\* the queue after a failed attempt.
C17_StatusFollowsLifecycle ==
    /\ \A u \in Users, k \in Slots :
          workers[u][k].pc = "send" => msgs[workers[u][k].msg].Status = "sending"
    /\ \A u \in Users, m \in Msgs :
          InQueue(u, m) => msgs[m].Status = "queued"

\* C18: "sent" and "failed" are final: from then on the message's Status
\* and Retries do not change, it is in no queue and in no goroutine's hand,
\* no attempt is made for it and no callback is fired for it.
C18_Terminal(m) == msgs[m].Status \in {"sent", "failed"}
C18_Gone ==
    \A m \in Msgs :
        C18_Terminal(m) => ~InHand(m) /\ \A u \in Users : ~InQueue(u, m)
C18_Frozen ==
    \A m \in Msgs :
        C18_Terminal(m)
        => /\ msgs'[m] = msgs[m]
           /\ attempts'[m] = attempts[m]
           /\ callbacks'[m] = callbacks[m]
C18_TerminalAbsorbing == []C18_Gone /\ [][C18_Frozen]_vars
\* Message 0 was sent, and afterwards message 1 failed for good.
C18_Witness ==
    /\ msgs[0].Status = "sent"
    /\ msgs[1].Status = "failed"
    /\ sentLog["a"] = <<0>>
    /\ attempts[1] = MAX_RETRIES

\* C19: a message that has reached "sent" or "failed" can be polled: a
\* single-message status query by its owner made after that answers with the
\* message and its Status, not with 404.
C19_TerminalPollable ==
    \A r \in Reqs :
        reply[r].kind = "message" /\ reply[r].was \in {"sent", "failed"}
        => reply[r].found

\* C20: the two status queries change nothing: no field of any queue or
\* message, no lock, no goroutine, also when a rate window has expired; the
\* response is the snapshot of the state the query leaves, so that a second
\* query right after it answers the same.
C20_QueryStep ==
    \A r \in Reqs :
        reply'[r] # reply[r] /\ reply'[r].kind \in {"status", "message"}
        => /\ UNCHANGED <<clock, messageQueues, queues, mu, msgs, workers,
                          accepted, sentLog, attempts, callbacks, anyFail>>
           /\ \E u \in Users :
                 /\ handlers'[r].u = u
                 /\ reply'[r].kind = "status" => reply'[r] = QueueStatus(u)'
                 /\ reply'[r].kind = "message"
                    => \E m \in Msgs : reply'[r] = MessageStatus(u, m)'
C20_QueriesReadOnly == [][C20_QueryStep]_vars
\* Two queue-status queries were answered after the hourly window expired,
\* with the same snapshot, one message having been sent before.
C20_Witness ==
    /\ reply[1].kind = "status" /\ reply[2] = reply[1]
    /\ clock > queues["a"].HourlyReset
    /\ reply[1].hourly_count = MAX_HOURLY_MESSAGES

\* C21: getOrCreateQueue creates at most one queue per user and hands that
\* queue to every caller: a registered user stays registered, and a call for
\* a registered user leaves its queue as it is, under any interleaving of
\* calls for the same or for different users.
C21_RegistryStep ==
    /\ messageQueues \subseteq messageQueues'
    /\ Cardinality(messageQueues' \ messageQueues) <= 1
    /\ \A r \in Reqs :
          handlers[r].pc = "idle" /\ handlers'[r].pc = "can"
          => LET u == handlers'[r].u IN
             /\ u \in messageQueues'
             /\ \A v \in messageQueues : queues'[v] = queues[v]
             /\ u \notin messageQueues => queues'[u] = NewQueue(clock)
             /\ \A v \in Users \ {u} : (v \in messageQueues') = (v \in messageQueues)
    /\ \A u \in Users :
          u \notin messageQueues /\ u \in messageQueues'
          => \E r \in Reqs : handlers[r].pc = "idle" /\ handlers'[r].pc = "can"
                             /\ handlers'[r].u = u
C21_OneQueuePerUser == [][C21_RegistryStep]_vars
\* Two requests for b: the first created b's queue and queued its message,
\* the second was handed the same queue, with that message in it.
C21_Witness ==
    /\ handlers[1].u = "b" /\ handlers[2].u = "b"
    /\ handlers[2].pc = "can"
    /\ accepted["b"] = <<1>>
    /\ "b" \in messageQueues

\* C22: a message popped and then refused by the rate check is put back at
\* the head of the queue, ahead of every pending message, those queued since
\* the pop included; its Status and Retries are unchanged, no attempt is made
\* and no callback fires, and the goroutine sleeps the one minute and nothing
\* else before it is back at the head of the loop.
C22_DeferStep ==
    \A u \in Users, k \in Slots :
        /\ workers[u][k].pc = "defer" /\ workers'[u][k].pc # "defer"
           => /\ queues'[u].Messages = <<workers[u][k].msg>> \o queues[u].Messages
              /\ UNCHANGED <<msgs, attempts, callbacks>>
              /\ workers'[u][k].pc = "backoff"
              /\ workers'[u][k].wake = clock + MINUTE
        /\ workers[u][k].pc = "backoff" /\ workers'[u][k].pc # "backoff"
           => /\ workers'[u][k].pc = "top"
              /\ clock >= workers[u][k].wake
              /\ UNCHANGED <<queues, msgs, attempts, callbacks>>
C22_DeferredToHead == [][C22_DeferStep]_vars
\* Message 1 was popped and refused at the hourly limit, message 2 was queued
\* meanwhile, and message 1 is back ahead of it, untouched.
C22_Witness ==
    \E k \in Slots :
        /\ workers["a"][k].pc = "backoff"
        /\ queues["a"].Messages = <<1, 2>>
        /\ msgs[1].Status = "queued" /\ msgs[1].Retries = 0
        /\ attempts[1] = 0

\* C23: a message whose attempt failed with Retries still below MAX_RETRIES
\* is appended at the tail of the queue, behind every message pending then,
\* and the goroutine takes messages from the head only, so that it comes to
\* the retry after all of those; no step reorders the queue.
C23_QueueStep ==
    \A u \in Users :
        LET old == queues[u].Messages
            new == queues'[u].Messages
        IN
        /\ \A k \in Slots :
              workers[u][k].pc = "post" /\ workers'[u][k].pc # "post"
              /\ ~workers[u][k].ok /\ msgs[workers[u][k].msg].Retries + 1 < MAX_RETRIES
              => /\ new = Append(old, workers[u][k].msg)
                 /\ msgs'[workers[u][k].msg].Status = "retrying"
        /\ \A k \in Slots :
              workers[u][k].msg = NoMsg /\ workers'[u][k].msg # NoMsg
              => old # <<>> /\ workers'[u][k].msg = Head(old) /\ new = Tail(old)
        /\ u \in messageQueues /\ new # old
           => \/ old # <<>> /\ new = Tail(old)
              \/ \E m \in Msgs : new = Append(old, m)
              \/ \E k \in Slots : workers[u][k].pc = "defer"
                                  /\ new = <<workers[u][k].msg>> \o old
C23_RetryToTail == [][C23_QueueStep]_vars
\* Message 1 failed once while message 2 was queued during the attempt, and
\* is now behind it.
C23_Witness ==
    /\ queues["a"].Messages = <<2, 1>>
    /\ msgs[1].Status = "retrying" /\ msgs[1].Retries = 1
    /\ msgs[2].Status = "queued"

\* C24: with BurstCount at BURST_ALLOWANCE at the gate the goroutine does
\* not start the send before LastSent + BURST_COOLDOWN: it sleeps the
\* cooldown less the time elapsed, more than nothing and no more than the
\* cooldown, or not at all when the cooldown has elapsed, and BurstCount has
\* been reset when the send starts.
C24_BurstGate ==
    \A u \in Users, k \in Slots :
        LET w == workers[u][k]
            q == queues[u]
        IN
        /\ w.pc = "burstSleep"
           => /\ q.BurstCount >= BURST_ALLOWANCE
              /\ w.wake = q.LastSent + BURST_COOLDOWN
              /\ w.wake - w.now > 0 /\ w.wake - w.now <= BURST_COOLDOWN
        /\ w.pc \in {"delay", "delaySleep", "send"}
           => /\ q.BurstCount < BURST_ALLOWANCE
              /\ q.BurstCount = 0 /\ q.LastSent # ZeroTime
                 => clock >= q.LastSent + BURST_COOLDOWN
\* The goroutine found the allowance used up within the cooldown, has slept
\* what was left of it and is in the send, with BurstCount reset.
C24_Witness ==
    \E k \in Slots :
        /\ scope.start = "burst"
        /\ workers["a"][k].pc = "send" /\ workers["a"][k].msg = 0
        /\ attempts[0] = 0
        /\ queues["a"].BurstCount = 0
        /\ clock = queues["a"].LastSent + BURST_COOLDOWN

\* C25: the message delay the goroutine sleeps is what is left of
\* MESSAGE_DELAY since LastSent at the time it gets there: after a burst
\* cooldown, with LastSent + MESSAGE_DELAY long past, it does not sleep.
C25_NoDelayAfterCooldown ==
    \A u \in Users, k \in Slots :
        /\ workers[u][k].pc = "delaySleep"
        /\ queues[u].BurstCount = 0
        /\ clock >= queues[u].LastSent + BURST_COOLDOWN
        => workers[u][k].wake <= clock

\* C26: a message's final failure does not end the goroutine: after the
\* bookkeeping of any attempt it goes on to the next iteration, takes the
\* next pending message if there is one, and leaves the loop only when it
\* finds the queue empty.
C26_LoopStep ==
    \A u \in Users, k \in Slots :
        LET w == workers[u][k] IN
        /\ w.pc = "post" /\ workers'[u][k].pc # "post"
           => workers'[u][k].pc = "human"
        /\ w.pc # "exit" /\ workers'[u][k].pc = "exit"
           => w.pc \in {"top", "human"} /\ queues[u].Messages = <<>>
        /\ w.pc = "human" /\ workers'[u][k] # w /\ queues[u].Messages # <<>>
           => /\ workers'[u][k].pc = "rate"
              /\ workers'[u][k].msg = Head(queues[u].Messages)
C26_FailureKeepsDraining == [][C26_LoopStep]_vars
\* Message 0 has failed for good and the goroutine is sending message 1.
C26_Witness ==
    \E k \in Slots :
        /\ msgs[0].Status = "failed"
        /\ workers["a"][k].pc = "send" /\ workers["a"][k].msg = 1
        /\ accepted["a"] = <<0, 1>>

\* C27: a successful send adds one to each of BurstCount, HourlyCount and
\* DailyCount and sets LastSent to the time of its bookkeeping; a failed
\* attempt and a rate-limit put-back leave the three counters and LastSent as
\* they are, and no other step raises a counter or moves LastSent.
C27_CounterStep ==
    \A u \in messageQueues :
        LET q == queues[u]
            p == queues'[u]
        IN
        IF \E k \in Slots : /\ workers[u][k].pc = "post" /\ workers[u][k].ok
                            /\ workers'[u][k].pc # "post"
        THEN /\ p.BurstCount = q.BurstCount + 1
             /\ p.HourlyCount = q.HourlyCount + 1
             /\ p.DailyCount = q.DailyCount + 1
             /\ p.LastSent = clock
        ELSE /\ p.LastSent = q.LastSent
             /\ p.BurstCount \in {q.BurstCount, 0}
             /\ p.HourlyCount \in {q.HourlyCount, 0}
             /\ p.DailyCount \in {q.DailyCount, 0}
             /\ \A k \in Slots :
                   /\ workers'[u][k] # workers[u][k]
                   /\ workers[u][k].pc \in {"send", "post", "defer"}
                   => /\ p.BurstCount = q.BurstCount
                      /\ p.HourlyCount = q.HourlyCount
                      /\ p.DailyCount = q.DailyCount
C27_OnlySuccessCounts == [][C27_CounterStep]_vars
\* Message 0 failed once and was then sent: the counters have gone up by one
\* from their values at the start, and LastSent is the time of the success.
C27_Witness ==
    /\ scope.start = "used"
    /\ msgs[0].Status = "sent" /\ msgs[0].Retries = 1
    /\ queues["a"].BurstCount = 2 /\ queues["a"].HourlyCount = 2
    /\ queues["a"].DailyCount = 2
    /\ queues["a"].LastSent = clock /\ clock > 0

\* C28: the rate windows roll lazily and from now: a canSendMessage call
\* with its now after HourlyReset sets HourlyCount to 0 and HourlyReset to now
\* plus an hour, and the same for DailyCount and DailyReset with a day; a call
\* with now not after the marker leaves counter and marker; no other step
\* resets one of the two counters or moves a marker.
C28_HourlyCalls(u) ==
    {handlers[r].now : r \in {x \in Reqs : /\ handlers[x].u = u
                                           /\ handlers[x].pc = "can_h"
                                           /\ handlers'[x].pc = "can_x"}}
    \cup {workers[u][k].now : k \in {x \in Slots : /\ workers[u][x].pc = "rate_h"
                                                   /\ workers'[u][x].pc = "rate_x"}}
C28_DailyCalls(u) ==
    {handlers[r].now : r \in {x \in Reqs : /\ handlers[x].u = u
                                           /\ handlers[x].pc = "can_x"
                                           /\ handlers'[x].pc # "can_x"}}
    \cup {workers[u][k].now : k \in {x \in Slots : /\ workers[u][x].pc = "rate_x"
                                                   /\ workers'[u][x].pc # "rate_x"}}
C28_RolloverStep ==
    \A u \in messageQueues :
        LET q == queues[u]
            p == queues'[u]
        IN
        /\ \A t \in C28_HourlyCalls(u) :
              IF t > q.HourlyReset
              THEN p.HourlyCount = 0 /\ p.HourlyReset = t + HOUR
              ELSE p.HourlyCount = q.HourlyCount /\ p.HourlyReset = q.HourlyReset
        /\ \A t \in C28_DailyCalls(u) :
              IF t > q.DailyReset
              THEN p.DailyCount = 0 /\ p.DailyReset = t + DAY
              ELSE p.DailyCount = q.DailyCount /\ p.DailyReset = q.DailyReset
        /\ C28_HourlyCalls(u) = {}
           => p.HourlyReset = q.HourlyReset /\ p.HourlyCount >= q.HourlyCount
        /\ C28_DailyCalls(u) = {}
           => p.DailyReset = q.DailyReset /\ p.DailyCount >= q.DailyCount
C28_LazyRollover == [][C28_RolloverStep]_vars
\* One call, made after both windows had expired, has rolled both.
C28_Witness ==
    /\ clock > DAY
    /\ queues["a"].HourlyReset = clock + HOUR /\ queues["a"].HourlyCount = 0
    /\ queues["a"].DailyReset = clock + DAY /\ queues["a"].DailyCount = 0

\* C29: the response to an accepted enqueue reports the message's position
\* in the queue, from 1 on, never -1 or 0, also when the goroutine or other
\* enqueues run between the insert and the lookup.
C29_PositionReported ==
    \A r \in Reqs : reply[r].kind = "queued" => reply[r].position >= 1

\* C30: in a send attempt with a connected client the paused signal is
\* emitted only after the settle pause of 100-400 ms: whenever the paused
\* signal has gone out, the settle pause has been slept before it.
C30_IsSettle(e) ==
    e.ev = "sleep" /\ e.ms >= SETTLE_BASE /\ e.ms <= SETTLE_BASE + SETTLE_SPREAD
C30_PausedAfterSettle ==
    \A i \in 1..Len(typing.events) :
        typing.events[i].ev = "paused"
        => \E j \in 1..(i - 1) : C30_IsSettle(typing.events[j])

\* C31: every message longer than 5 characters that contains a run of at
\* least 5 identical consecutive non-space characters, anywhere up to the
\* very end, is classified as spam.
C31_HasRun(message) ==
    \E i \in 1..(Len(message) - 4) :
        /\ message[i] # 32
        /\ \A j \in i..(i + 4) : message[j] = message[i]
C31_RunsAreSpam ==
    spam.pc = "done" /\ Len(spam.message) > 5 /\ C31_HasRun(spam.message)
    => spam.rule # ""

\* The same for the messages of one-byte characters only, as a measure of
\* what the rule does catch.
C31_Ascii(message) == \A i \in 1..Len(message) : message[i] < 128
C31_AsciiRunsAreSpam ==
    spam.pc = "done" /\ Len(spam.message) > 5 /\ C31_HasRun(spam.message)
        /\ C31_Ascii(spam.message)
    => spam.rule # ""

\* C32: rule 2 rejects a message exactly when it is longer than 10 characters
\* and, among its alphabetic characters, the uppercase fraction is strictly
\* greater than 0.7: a message that passed rule 1 and has both is rejected,
\* and a message rejected by rule 2 has both.
C32_Alphabetic(r) == IsLetter(r) \/ r = 233
C32_Uppercase(message) ==
    LET letters == {i \in 1..Len(message) : C32_Alphabetic(message[i])}
        upper == {i \in letters : IsUpper(message[i])}
    IN Cardinality(upper) * 10 > Cardinality(letters) * 7
C32_Expected(message) == Len(message) > 10 /\ C32_Uppercase(message)
C32_CapsRule ==
    /\ spam.rule = "caps" => C32_Expected(spam.message)
    /\ spam.pc \in {"repetition", "emojis"} \/ (spam.pc = "done" /\ spam.rule # "keyword")
       => (C32_Expected(spam.message) => spam.rule = "caps")

\* The same for the messages of one-byte characters only.
C32_AsciiCapsRule ==
    C31_Ascii(spam.message) => C32_CapsRule

\* C33: for every webhook, however the calls of addWebhookLog interleave, the
\* stored log holds at most LOG_LIMIT entries (5 in the code) and they are the
\* most recently added ones in the order of their addition; getWebhookLogs
\* leaves the stored log unchanged and returns its entries in an array of
\* their own.
C33_Last(entries) ==
    SubSeq(entries, Len(entries) - LOG_LIMIT + 1, Len(entries))
C33_Recent(w) ==
    /\ Len(webhookLogs.logs[w].entries) <= LOG_LIMIT
    /\ webhookLogs.logs[w].entries =
          IF Len(webhookLogs.added[w]) > LOG_LIMIT
          THEN C33_Last(webhookLogs.added[w])
          ELSE webhookLogs.added[w]
C33_Step ==
    webhookLogs.pc = "run" =>
      /\ \A w \in Webhooks : C33_Recent(w)'
      /\ \A t \in LogThreads :
           webhookLogs.calls[t].pc = "get" /\ webhookLogs'.calls[t].pc = "unlock"
           => /\ webhookLogs'.logs = webhookLogs.logs
              /\ webhookLogs'.calls[t].res.entries
                    = webhookLogs.logs[webhookLogs.calls[t].w].entries
              /\ \A w \in Webhooks :
                    webhookLogs'.calls[t].res.arr # 0
                    => webhookLogs'.calls[t].res.arr # webhookLogs'.logs[w].arr
C33_LastEntriesKept == [][C33_Step]_vars
C33_Witness ==
    /\ webhookLogs.pc = "run"
    /\ \E w \in Webhooks, t \in LogThreads :
         /\ Len(webhookLogs.added[w]) > LOG_LIMIT
         /\ webhookLogs.calls[t].w = w
         /\ webhookLogs.calls[t].pc = "unlock"
         /\ webhookLogs.calls[t].res.entries = C33_Last(webhookLogs.added[w])
         /\ \E t2 \in LogThreads : webhookLogs.calls[t2].pc = "lock"

\* C34: every message accepted by addMessage is in exactly one place: once in
\* its owner's pending sequence, or in the hands of its owner's goroutine, or
\* terminal (sent or failed); it is in no other user's queue or goroutine,
\* and it is sent successfully at most once.
C34_Pending(u, m) ==
    Cardinality({i \in 1..Len(queues[u].Messages) : queues[u].Messages[i] = m})
C34_Held(u, m) == Cardinality({k \in Slots : workers[u][k].msg = m})
C34_Sends(m) ==
    Cardinality({<<u, i>> \in Users \X (1..(MaxReqs + 1)) :
                    i <= Len(sentLog[u]) /\ sentLog[u][i] = m})
C34_Conservation ==
    \A u \in Users : \A n \in 1..Len(accepted[u]) :
        LET m == accepted[u][n] IN
        /\ C34_Pending(u, m) + C34_Held(u, m)
              + (IF C18_Terminal(m) THEN 1 ELSE 0) = 1
        /\ \A v \in Users \ {u} : C34_Pending(v, m) = 0 /\ C34_Held(v, m) = 0
        /\ C34_Sends(m) <= 1
        /\ Succeeded(m) => msgs[m].Status # "failed"
\* One message is sent, one has failed once and is back in the queue, one is
\* in the hands of the goroutine.
C34_Witness ==
    \E m1, m2, m3 \in Msgs :
        /\ msgs[m1].Status = "sent"
        /\ msgs[m2].Status = "retrying" /\ InQueue("a", m2)
        /\ InHand(m3) /\ msgs[m3].Status = "queued"
        /\ Len(accepted["a"]) = MaxReqs + 1

\* C35: every message in a pending sequence has Status queued or retrying
\* and Retries below MAX_RETRIES; a message's Retries is between 0 and
\* MAX_RETRIES and is the number of its failed attempts (an attempt counts
\* once the goroutine has recorded its outcome under the lock); a message is
\* failed exactly when its Retries is MAX_RETRIES; and no message is
\* attempted more than MAX_RETRIES times.
C35_Unrecorded(m) ==
    Cardinality({<<u, k>> \in Users \X Slots :
                    workers[u][k].msg = m /\ workers[u][k].pc = "post"})
C35_Recorded(m) == attempts[m] - C35_Unrecorded(m)
C35_RetriesCount ==
    /\ \A u \in Users : \A i \in 1..Len(queues[u].Messages) :
          LET m == queues[u].Messages[i] IN
          /\ msgs[m].Status \in {"queued", "retrying"}
          /\ msgs[m].Retries < MAX_RETRIES
    /\ \A m \in Msgs :
          /\ msgs[m].Retries >= 0 /\ msgs[m].Retries <= MAX_RETRIES
          /\ msgs[m].Retries
                = C35_Recorded(m) - (IF msgs[m].Status = "sent" THEN 1 ELSE 0)
          /\ msgs[m].Status = "failed" <=> msgs[m].Retries = MAX_RETRIES
          /\ attempts[m] <= MAX_RETRIES
\* A message that has failed all but one of its attempts waits in the queue
\* behind one that has not been tried yet.
C35_Witness ==
    \E m, m2 \in Msgs :
        /\ queues["a"].Messages = <<m2, m>>
        /\ msgs[m].Status = "retrying" /\ msgs[m].Retries = MAX_RETRIES - 1
        /\ msgs[m2].Status = "queued" /\ attempts[m2] = 0

\* C36: a send attempt of a queue that has sent before starts at least
\* MESSAGE_DELAY after the queue's LastSent, with or without a burst cooldown
\* before it: a goroutine that is through the gate and may call sendMessage
\* is that far from LastSent.
C36_Spacing ==
    \A u \in Users, k \in Slots :
        workers[u][k].pc = "send" /\ queues[u].LastSent # ZeroTime
        => clock - queues[u].LastSent >= MESSAGE_DELAY
\* A message was sent in this run and the next attempt is about to start,
\* exactly MESSAGE_DELAY later.
C36_Witness ==
    \E k \in Slots :
        /\ workers["a"][k].pc = "send"
        /\ sentLog["a"] # <<>>
        /\ clock - queues["a"].LastSent = MESSAGE_DELAY

\* C37: BurstCount is always within 0..BURST_ALLOWANCE: it is reset to 0
\* before a send that would be one too many for the burst, and only steps of
\* the queue's own goroutine change it.
C37_InRange ==
    \A u \in Users :
        queues[u].BurstCount >= 0 /\ queues[u].BurstCount <= BURST_ALLOWANCE
C37_OwnStep ==
    \A u \in Users :
        queues'[u].BurstCount # queues[u].BurstCount
        => \E k \in Slots :
              /\ workers[u][k].pc \in {"gate", "burstSleep", "post"}
              /\ workers'[u][k].pc # workers[u][k].pc
              /\ handlers' = handlers
              /\ \A v \in Users \ {u} : workers'[v] = workers[v]
C37_BurstBounded == []C37_InRange /\ [][C37_OwnStep]_vars
\* After a send of this run filled the burst, the counter was reset and the
\* next message was sent as the first of a new burst.
C37_Witness ==
    /\ Len(sentLog["a"]) >= 2
    /\ queues["a"].BurstCount = 1
    /\ scope.start = "used"

\* C38: the queues cannot deadlock.  No thread holds two locks at once; a
\* thread that holds a lock can always take its next step, so it neither
\* waits for a lock it holds nor keeps one for good; and every thread that
\* has work to do and is not asleep can take a step, or waits for a lock
\* whose holder can.
C38_Handlers == {r \in Reqs : handlers[r].pc \notin {"idle", "done"}}
C38_Asleep(u, k) ==
    /\ workers[u][k].pc \in {"backoff", "burstSleep", "delaySleep"}
    /\ clock < workers[u][k].wake
C38_Workers ==
    {<<u, k>> \in Users \X Slots : workers[u][k].pc # "none" /\ ~C38_Asleep(u, k)}
C38_Threads ==
    {HandlerThread(r) : r \in C38_Handlers}
        \cup {WorkerThread(w[1], w[2]) : w \in C38_Workers}
C38_CanStep(t) ==
    IF t.kind = "handler" THEN ENABLED HandlerNext(t.k)
    ELSE ENABLED WorkerNext(t.u, t.k)
C38_Holders == {t \in C38_Threads : \E l \in LockIds : Holds(l, t)}
C39_OneClient ==
    waUsers.pc = "run" /\ waUsers.disconnects = 0 => waUsers.clients <= 1

====
